---- MODULE Spec2Model ----
(***************************************************************************)
(* Model of the deploy.sql generators of the project template:             *)
(*   {{cookiecutter.repo_name}}/00snowflake/deploy_sql.py  ("snowflake")   *)
(*   {{cookiecutter.repo_name}}/deploy/deploy_sql.py       ("deploy")      *)
(* Text is a sequence of one-character strings so that upper(), lower(),   *)
(* replace(), endswith() and splitext() are computed, not assumed.         *)
(* A path is a sequence of components relative to the repository root;     *)
(* the scripts run with the script directory as working directory, so      *)
(* '..' is the repository root.                                            *)
(***************************************************************************)
EXTENDS Naturals, Sequences, FiniteSets, TLC

VARIABLES variant, env, tree, pc, ctx, deploy_lines, output, opened, prev, runs

vars == <<variant, env, tree, pc, ctx, deploy_lines, output, opened, prev, runs>>

\* the state of a process that calls MdtSnowPark.get_session
VARIABLES environ, default_parameters, session, call, platform, calls, changes

session_vars == <<environ, default_parameters, session, call, platform, calls, changes>>

\* the state of a call of safe_rename_folder of the post-generation hook
VARIABLES rename_pc, max_retries, attempt, given, folders, result, log

rename_vars == <<rename_pc, max_retries, attempt, given, folders, result, log>>

\* ------------------------------------------------------------------ bounds
MaxApps == 2
MaxNotebooks == 2
MaxRuns == 2
MaxMissing == 1
MaxCalls == 2
MaxChanges == 2
MaxRetries == 4

\* ------------------------------------------------------------------ text
LowerAlpha == <<"a","b","c","d","e","f","g","h","i","j","k","l","m",
                "n","o","p","q","r","s","t","u","v","w","x","y","z">>
UpperAlpha == <<"A","B","C","D","E","F","G","H","I","J","K","L","M",
                "N","O","P","Q","R","S","T","U","V","W","X","Y","Z">>

UpperChar(c) ==
    IF \E i \in 1..26 : LowerAlpha[i] = c
    THEN UpperAlpha[CHOOSE i \in 1..26 : LowerAlpha[i] = c]
    ELSE c

LowerChar(c) ==
    IF \E i \in 1..26 : UpperAlpha[i] = c
    THEN LowerAlpha[CHOOSE i \in 1..26 : UpperAlpha[i] = c]
    ELSE c

\* str.upper()
Upper(s) == [i \in 1..Len(s) |-> UpperChar(s[i])]

\* str.lower()
Lower(s) == [i \in 1..Len(s) |-> LowerChar(s[i])]

\* os.sep
Sep == "/"

\* str.replace(old, new) for one-character old and new
Replace(s, old, new) == [i \in 1..Len(s) |-> IF s[i] = old THEN new ELSE s[i]]

\* str.endswith(suffix)
EndsWith(s, suffix) ==
    /\ Len(s) >= Len(suffix)
    /\ SubSeq(s, Len(s) - Len(suffix) + 1, Len(s)) = suffix

\* os.path.splitext(file)[0]: cut at the last dot that follows a non-dot
SplitExtStem(s) ==
    LET dots == {i \in 2..Len(s) : s[i] = "." /\ \E j \in 1..(i-1) : s[j] # "."}
    IN  IF dots = {} THEN s
        ELSE SubSeq(s, 1, (CHOOSE i \in dots : \A j \in dots : j <= i) - 1)

RECURSIVE JoinPath(_)
\* os.path.join / the string form of a path: components separated by os.sep
JoinPath(comps) ==
    IF comps = <<>> THEN <<>>
    ELSE IF Len(comps) = 1 THEN comps[1]
    ELSE comps[1] \o <<Sep>> \o JoinPath(Tail(comps))

\* os.path.relpath(path, start) for start an ancestor of (or equal to) path
RelPath(path, start) ==
    IF path = start THEN <<".">>
    ELSE JoinPath(SubSeq(path, Len(start) + 1, Len(path)))

\* os.path.relpath(path, '.') with the script directory as working directory
RelPathFromCwd(path) == JoinPath(<<<<".", ".">>>> \o path)

\* ------------------------------------------------------------------ names
IpynbExt == <<".","i","p","y","n","b">>
File_a_ipynb == <<"a">> \o IpynbExt
File_b_ipynb == <<"b">> \o IpynbExt
File_x_py == <<"x",".","p","y">>
File_Dockerfile == <<"D","o","c","k","e","r","f","i","l","e">>
File_streamlit_app == <<"s","t","r","e","a","m","l","i","t","_","a","p","p",".","p","y">>
File_main == <<"m","a","i","n",".","p","y">>

Dir_streamlit == <<"s","t","r","e","a","m","l","i","t">>
Dir_apps == <<"a","p","p","s">>
Dir_notebooks == <<"n","o","t","e","b","o","o","k","s">>
Dir_a == <<"a">>
Dir_b == <<"b">>
Dir_a_b == <<"a","_","b">>

\* the entry file each script looks for
EntryFile(v) == IF v = "snowflake" THEN File_streamlit_app ELSE File_main

\* the folder each script scans for apps, below the repository root
AppRootName(v) == IF v = "snowflake" THEN Dir_streamlit ELSE Dir_apps

streamlit_root(v) == <<AppRootName(v)>>

\* directories below the app root, relative to the app root
AppSubDirs == {<<>>, <<Dir_a>>, <<Dir_a, Dir_b>>, <<Dir_a_b>>}

\* directories of the app root that may hold an entry file
AppDirs == {<<>>, <<Dir_a, Dir_b>>, <<Dir_a_b>>}

\* places a notebook file may sit: (directory relative to repository root, file)
NotebookSlots == { <<<<>>, File_a_ipynb>>,
                   <<<<Dir_notebooks>>, File_a_ipynb>>,
                   <<<<Dir_notebooks>>, File_b_ipynb>> }

\* ------------------------------------------------------------------ file system
\* A tree snapshot: whether the app root exists, the state of the entry file
\* of each app directory ("none", "empty" = zero bytes, "nonempty", or
\* "dangling" = a link whose target is gone, listed by os.walk but not
\* stat-able), the app directories holding a Dockerfile, the notebooks, and
\* the directories that cannot be listed (no read permission).  A directory
\* is taken to be unreadable only when a marker file lies in or below it.
EntryStates == {"none", "empty", "nonempty", "dangling"}

\* the directories that may be unreadable, relative to the repository root
UnreadableDirs(v) == {<<Dir_notebooks>>, streamlit_root(v) \o <<Dir_a>>}

Trees(v) ==
    { t \in [approot : BOOLEAN,
             entry : [AppDirs -> EntryStates],
             docker : SUBSET AppDirs,
             notebooks : SUBSET NotebookSlots,
             unreadable : SUBSET UnreadableDirs(v)] :
        /\ Cardinality({d \in AppDirs : t.entry[d] # "none"}) <= MaxApps
        /\ Cardinality(t.notebooks) <= MaxNotebooks
        /\ \A d \in t.docker : t.entry[d] # "none"
        /\ (~t.approot => \A d \in AppDirs : t.entry[d] = "none")
        /\ (<<Dir_notebooks>> \in t.unreadable =>
              \E n \in t.notebooks : n[1] = <<Dir_notebooks>>)
        /\ (streamlit_root(v) \o <<Dir_a>> \in t.unreadable =>
              t.entry[<<Dir_a, Dir_b>>] # "none") }

\* the directories of the snapshot, relative to the repository root
Dirs(t, v) ==
    {<<>>, <<Dir_notebooks>>}
      \cup (IF t.approot THEN {streamlit_root(v) \o d : d \in AppSubDirs} ELSE {})

\* the file names in one directory
FilesIn(t, v, dir) ==
    {s[2] : s \in {n \in t.notebooks : n[1] = dir}}
      \cup (IF dir = <<Dir_notebooks>> THEN {File_x_py} ELSE {})
      \cup UNION { (IF t.entry[d] # "none" THEN {EntryFile(v)} ELSE {})
                     \cup (IF d \in t.docker THEN {File_Dockerfile} ELSE {})
                   : d \in {e \in AppDirs : t.approot /\ streamlit_root(v) \o e = dir} }

\* os.path.exists(path) for a directory
DirExists(t, v, dir) == dir \in Dirs(t, v)

\* os.path.exists(os.path.join(dirpath, name)); False for a dangling link
FileExists(t, v, dir, name) ==
    /\ name \in FilesIn(t, v, dir)
    /\ ~(name = EntryFile(v) /\ \E d \in AppDirs :
            streamlit_root(v) \o d = dir /\ t.entry[d] = "dangling")

\* state of the entry file found in dir
EntryState(t, v, dir) ==
    t.entry[CHOOSE d \in AppDirs : streamlit_root(v) \o d = dir]

\* os.path.getsize(app_path) raises OSError
GetSizeRaises(t, v, dir) == EntryState(t, v, dir) = "dangling"

\* os.path.getsize(app_path)
GetSize(t, v, dir) == IF EntryState(t, v, dir) = "nonempty" THEN 1 ELSE 0

\* os.scandir(dir) raises OSError (PermissionError)
ScandirRaises(t, dir) == dir \in t.unreadable

\* all orders in which the members of a finite set may be enumerated
Perms(S) ==
    { p \in [1..Cardinality(S) -> S] :
        \A i, j \in 1..Cardinality(S) : p[i] = p[j] => i = j }

Children(t, v, dir) ==
    { d \in Dirs(t, v) : Len(d) = Len(dir) + 1 /\ SubSeq(d, 1, Len(dir)) = dir }

\* ------------------------------------------------------------------ environment
V_DB == <<"D","B">>
V_SC == <<"S","C">>
V_WH == <<"W","H">>
V_UDB == <<"U","D","B">>
V_GIT == <<"G","I","T">>
V_CP == <<"C","P">>
V_REPO == <<"R","E","P","O">>
V_proj == <<"p","r","o","j">>
V_Dev == <<"D","e","v">>
V_1 == <<"1">>
V_2 == <<"2">>
V_USER == <<"U","S","E","R","$">>

EnvVars == {"DEPLOY_DB", "DEPLOY_SCHEMA", "REPO_NAME", "BUILD_SOURCEBRANCHNAME",
            "WAREHOUSE", "UTILITY_DB", "GIT_SCHEMA", "WORKSPACE_OWNER",
            "COMPUTE_POOL", "MIN_INSTANCES", "MAX_INSTANCES", "IMAGE_REPO_NAME"}

\* the variables each script reads with os.environ[...]
Subscripted(v) ==
    {"DEPLOY_DB", "DEPLOY_SCHEMA", "REPO_NAME", "BUILD_SOURCEBRANCHNAME", "WAREHOUSE"}
      \cup (IF v = "snowflake" THEN {"UTILITY_DB", "GIT_SCHEMA"} ELSE {})

BaseValues ==
    [k \in EnvVars |->
        CASE k = "DEPLOY_DB" -> V_DB
          [] k = "DEPLOY_SCHEMA" -> V_SC
          [] k = "REPO_NAME" -> V_proj
          [] k = "BUILD_SOURCEBRANCHNAME" -> V_Dev
          [] k = "WAREHOUSE" -> V_WH
          [] k = "UTILITY_DB" -> V_UDB
          [] k = "GIT_SCHEMA" -> V_GIT
          [] k = "WORKSPACE_OWNER" -> <<>>
          [] k = "COMPUTE_POOL" -> V_CP
          [] k = "MIN_INSTANCES" -> V_1
          [] k = "MAX_INSTANCES" -> V_2
          [] k = "IMAGE_REPO_NAME" -> V_REPO]

\* Environments of a run: at most MaxMissing subscripted variables unset,
\* COMPUTE_POOL set or unset, IMAGE_REPO_NAME set to a name or to '',
\* MIN_INSTANCES and WORKSPACE_OWNER unset, MAX_INSTANCES set.  The optional
\* variables are varied only when no subscripted variable is
\* missing: otherwise the run ends before they are read.
Envs(v) ==
    { [set |-> (EnvVars \ {"MIN_INSTANCES", "WORKSPACE_OWNER"}) \ nocp,
       val |-> [BaseValues EXCEPT !["IMAGE_REPO_NAME"] = ir]] :
        nocp \in {{}, {"COMPUTE_POOL"}},
        ir \in {<<>>, V_REPO} }
    \cup
    { [set |-> (EnvVars \ {"MIN_INSTANCES", "WORKSPACE_OWNER"}) \ missing,
       val |-> BaseValues] :
        missing \in {m \in SUBSET Subscripted(v) : m # {} /\ Cardinality(m) <= MaxMissing} }

\* os.environ[k] raises KeyError
KeyMissing(e, k) == k \notin e.set

\* os.environ.get(k, default)
EnvGet(e, k, default) == IF k \in e.set THEN e.val[k] ELSE default

NoCtx ==
    [database |-> <<>>, schema |-> <<>>, repo_name |-> <<>>, branch |-> <<>>,
     warehouse |-> <<>>, utility_db |-> <<>>, git_schema |-> <<>>,
     workspace_owner |-> <<>>, compute_pool |-> <<>>, min_instances |-> <<>>,
     max_instances |-> <<>>, image_repo |-> <<>>]

\* the module-level assignments from the environment
ReadEnv(e, v) ==
    [database |-> e.val["DEPLOY_DB"],
     schema |-> e.val["DEPLOY_SCHEMA"],
     repo_name |-> e.val["REPO_NAME"],
     branch |-> e.val["BUILD_SOURCEBRANCHNAME"],
     warehouse |-> e.val["WAREHOUSE"],
     utility_db |-> IF v = "snowflake" THEN e.val["UTILITY_DB"] ELSE <<>>,
     git_schema |-> IF v = "snowflake" THEN e.val["GIT_SCHEMA"] ELSE <<>>,
     workspace_owner |-> IF v = "deploy" THEN EnvGet(e, "WORKSPACE_OWNER", V_USER) ELSE <<>>,
     compute_pool |-> EnvGet(e, "COMPUTE_POOL", <<>>),
     min_instances |-> EnvGet(e, "MIN_INSTANCES", V_1),
     max_instances |-> EnvGet(e, "MAX_INSTANCES", V_1),
     image_repo |-> EnvGet(e, "IMAGE_REPO_NAME", <<>>)]

\* ------------------------------------------------------------------ statements
\* One appended element of deploy_lines: the template (kind), the object
\* name interpolated into it, the other interpolated values in template
\* order, and the clause lines of an EXECUTE statement.  src is not part of
\* the text: it records the directory the statement was rendered for.
Stmt(kind, src, name, args, clauses) ==
    [kind |-> kind, src |-> src, name |-> name, args |-> args, clauses |-> clauses]

\* the text of a statement, without the record of where it came from
Text(s) == [kind |-> s.kind, name |-> s.name, args |-> s.args, clauses |-> s.clauses]

\* the bytes writelines() puts in the file
Bytes(lines) == [i \in 1..Len(lines) |-> Text(lines[i])]

NoSrc == <<>>

\* use_lines
use_lines(v, c) ==
    << Stmt("use_database", NoSrc, <<>>, <<c.database>>, <<>>),
       Stmt("create_schema", NoSrc, <<>>, <<c.schema>>, <<>>),
       Stmt("grant_schema", NoSrc, <<>>, <<c.database, c.schema>>, <<>>),
       Stmt("use_schema", NoSrc, <<>>, <<c.schema>>, <<>>) >>
    \o (IF v = "deploy"
        THEN << Stmt("create_notebook_project", NoSrc, <<>>,
                     <<c.database, c.schema, c.repo_name>>, <<>>),
                Stmt("notebook_project_from", NoSrc, <<>>,
                     <<c.workspace_owner, c.repo_name>>, <<>>) >>
        ELSE <<>>)

\* ------------------------------------------------------------------ notebooks
\* IsNotebook taking every file for a notebook
IsNotebook_AnyFile(file) == Len(file) > 0

\* file.endswith('.ipynb')
IsNotebook(file) == EndsWith(file, IpynbExt)

\* the two statements appended for one notebook file found in root
NotebookStatements(c, root, file) ==
    LET file_without_ext == SplitExtStem(file)
        relative_path == RelPathFromCwd(root)
    IN  << Stmt("create_notebook", root, file_without_ext,
                <<c.database, c.schema, c.utility_db, c.git_schema, c.repo_name,
                  c.branch, relative_path, c.warehouse, c.warehouse, file>>, <<>>),
           Stmt("alter_notebook", root, file_without_ext,
                <<c.database, c.schema>>, <<>>) >>

RECURSIVE NotebookFiles(_, _, _, _)
\* for file in files: ...
NotebookFiles(c, root, files, lines) ==
    IF files = <<>> THEN lines
    ELSE NotebookFiles(c, root, Tail(files),
            IF IsNotebook(Head(files))
            THEN lines \o NotebookStatements(c, root, Head(files))
            ELSE lines)

RECURSIVE NotebookWalk(_, _, _, _, _)
RECURSIVE NotebookWalkEach(_, _, _, _, _, _)
\* for root, dirs, files in os.walk(top): ...  os.walk is top-down: the
\* directory itself, then each sub-directory in the order the file system
\* lists them; that order and the order of the file names are whatever the
\* file system returns.  os.walk is called without onerror, so a directory
\* whose listing fails is passed over: nothing is yielded for it or below it.
\* The value is the set of the values deploy_lines may have after the loop.
NotebookWalk(t, v, c, top, lines) ==
    IF ScandirRaises(t, top) THEN {lines}
    ELSE
    UNION { NotebookWalkEach(t, v, c, ds, 1, NotebookFiles(c, top, fs, lines)) :
              fs \in Perms(FilesIn(t, v, top)),
              ds \in Perms(Children(t, v, top)) }

NotebookWalkEach(t, v, c, ds, i, lines) ==
    IF i > Len(ds) THEN {lines}
    ELSE UNION { NotebookWalkEach(t, v, c, ds, i + 1, l) :
                   l \in NotebookWalk(t, v, c, ds[i], lines) }

\* ------------------------------------------------------------------ apps
\* app_name without the replacement of os.sep
app_name_KeepSep(c, rel_to_streamlit) ==
    IF rel_to_streamlit = <<".">>
    THEN Upper(c.repo_name \o <<"_">> \o c.branch)
    ELSE Upper(c.repo_name \o <<"_">> \o c.branch \o <<"_">> \o rel_to_streamlit)

\* app_name, from the folder location relative to the app root
app_name(c, rel_to_streamlit) ==
    IF rel_to_streamlit = <<".">>
    THEN Upper(c.repo_name \o <<"_">> \o c.branch)
    ELSE LET subfolder_part == Replace(rel_to_streamlit, Sep, "_")
         IN  Upper(c.repo_name \o <<"_">> \o c.branch \o <<"_">> \o subfolder_part)

service_name(app) == app \o <<"_","S","E","R","V","I","C","E">>

image_name(app) == Lower(app) \o <<"_","i","m","a","g","e">>

\* IsContainerService without the image_repo test
IsContainerService_NoRepo(t, v, c, dirpath) ==
    /\ FileExists(t, v, dirpath, File_Dockerfile)
    /\ c.compute_pool # <<>>

\* IsContainerService with the size test of the native branch applied first
IsContainerService_Sized(t, v, c, dirpath) ==
    /\ FileExists(t, v, dirpath, File_Dockerfile)
    /\ c.compute_pool # <<>>
    /\ c.image_repo # <<>>
    /\ EntryState(t, v, dirpath) = "nonempty"

\* os.path.exists(dockerfile_path) and compute_pool and image_repo
IsContainerService(t, v, c, dirpath) ==
    /\ FileExists(t, v, dirpath, File_Dockerfile)
    /\ c.compute_pool # <<>>
    /\ c.image_repo # <<>>

\* whether the script has the native Streamlit branch at all
HasNativeBranch(v) == v = "snowflake"

\* IsNonEmpty with >= for >
IsNonEmpty_Geq(t, v, dirpath) == GetSize(t, v, dirpath) >= 0

\* os.path.getsize(app_path) > 0
IsNonEmpty(t, v, dirpath) == GetSize(t, v, dirpath) > 0

\* ContainerServiceStatements with the drop appended after the create
ContainerServiceStatements_DropLast(c, dirpath, app) ==
    << Stmt("create_service", dirpath, service_name(app),
            <<c.database, c.schema, c.compute_pool,
              c.database, c.image_repo, image_name(app),
              c.warehouse, c.min_instances, c.max_instances, c.warehouse>>, <<>>),
       Stmt("drop_service", dirpath, service_name(app),
            <<c.database, c.schema>>, <<>>) >>

\* DROP SERVICE IF EXISTS and CREATE SERVICE
ContainerServiceStatements(c, dirpath, app) ==
    << Stmt("drop_service", dirpath, service_name(app),
            <<c.database, c.schema>>, <<>>),
       Stmt("create_service", dirpath, service_name(app),
            <<c.database, c.schema, c.compute_pool,
              c.database, c.image_repo, image_name(app),
              c.warehouse, c.min_instances, c.max_instances, c.warehouse>>, <<>>) >>

\* CREATE OR REPLACE STREAMLIT
NativeAppStatements(c, dirpath, app) ==
    << Stmt("create_streamlit", dirpath, app,
            <<c.database, c.schema, c.utility_db, c.git_schema, c.repo_name,
              c.branch, RelPathFromCwd(dirpath), c.warehouse>>, <<>>) >>

\* the body run for an entry file found in dirpath; acc.ok is FALSE once an
\* exception has been raised
AppEntry(t, v, c, dirpath, acc) ==
    LET app == app_name(c, RelPath(dirpath, streamlit_root(v)))
    IN  IF IsContainerService(t, v, c, dirpath)
        THEN [acc EXCEPT !.lines = @ \o ContainerServiceStatements(c, dirpath, app)]
        ELSE IF ~HasNativeBranch(v) THEN acc
        ELSE IF GetSizeRaises(t, v, dirpath) THEN [acc EXCEPT !.ok = FALSE]
        ELSE IF IsNonEmpty(t, v, dirpath)
        THEN [acc EXCEPT !.lines = @ \o NativeAppStatements(c, dirpath, app)]
        ELSE acc

RECURSIVE AppFiles(_, _, _, _, _, _)
\* for filename in filenames: if filename == <entry file>: ...
AppFiles(t, v, c, dirpath, filenames, acc) ==
    IF filenames = <<>> \/ ~acc.ok THEN acc
    ELSE AppFiles(t, v, c, dirpath, Tail(filenames),
            IF Head(filenames) = EntryFile(v)
            THEN AppEntry(t, v, c, dirpath, acc)
            ELSE acc)

RECURSIVE AppWalk(_, _, _, _, _)
RECURSIVE AppWalkEach(_, _, _, _, _, _)
\* for dirpath, dirnames, filenames in os.walk(top): ...  top-down, in the
\* file system's enumeration order; the loop ends at the first exception.
\* The value is the set of the outcomes the loop may have.
AppWalk(t, v, c, top, acc) ==
    IF ~acc.ok \/ ScandirRaises(t, top) THEN {acc}
    ELSE UNION { AppWalkEach(t, v, c, ds, 1, AppFiles(t, v, c, top, fs, acc)) :
                   fs \in Perms(FilesIn(t, v, top)),
                   ds \in Perms(Children(t, v, top)) }

AppWalkEach(t, v, c, ds, i, acc) ==
    IF i > Len(ds) \/ ~acc.ok THEN {acc}
    ELSE UNION { AppWalkEach(t, v, c, ds, i + 1, r) :
                   r \in AppWalk(t, v, c, ds[i], acc) }

\* ------------------------------------------------------------------ execute
Txt_NB1 == <<"n","o","t","e","b","o","o","k","s","/","N","O","T","E","B","O","O","K","1",".","i","p","y","n","b">>
Txt_NB2 == <<"n","o","t","e","b","o","o","k","s","/","N","O","T","E","B","O","O","K","2",".","i","p","y","n","b">>
Txt_Runtime == <<"V","2",".","2","-","C","P","U","-","P","Y","3",".","1","1">>
Txt_EAI == <<"E","X","T","_","X","S","_","I","N","T","_","P","Y","P","I">>
Txt_ArgDb == <<"-","-","d","a","t","a","b","a","s","e","=","\"">>
Txt_ArgSc == <<"\""," ","-","-","s","c","h","e","m","a","=","\"">>

\* execute_list of the "deploy" script; the "snowflake" script has it
\* commented out
execute_list(v, c) ==
    IF v = "deploy"
    THEN LET arguments == Txt_ArgDb \o c.database \o Txt_ArgSc \o c.schema \o <<"\"">>
         IN  << [notebook_file |-> Txt_NB1, cp |-> c.compute_pool, runtime |-> Txt_Runtime,
                 eai_list |-> <<Txt_EAI>>, optional |-> <<arguments>>],
                [notebook_file |-> Txt_NB2, cp |-> c.compute_pool, runtime |-> Txt_Runtime,
                 eai_list |-> <<Txt_EAI>>, optional |-> <<arguments>>] >>
    ELSE <<>>

RECURSIVE JoinQuoted(_)
\* ', '.join(f"'{e}'" for e in eai_list)
JoinQuoted(l) ==
    IF l = <<>> THEN <<>>
    ELSE IF Len(l) = 1 THEN <<"'">> \o l[1] \o <<"'">>
    ELSE <<"'">> \o l[1] \o <<"'", ",", " ">> \o JoinQuoted(Tail(l))

\* one EXECUTE NOTEBOOK PROJECT statement
ExecuteStatement(c, e) ==
    LET arguments == IF e.optional # <<>> THEN e.optional[1] ELSE <<>>
        eai_values == JoinQuoted(e.eai_list)
        eai_str == IF e.eai_list # <<>>
                   THEN <<[clause |-> "EXTERNAL_ACCESS_INTEGRATIONS", value |-> eai_values]>>
                   ELSE <<>>
        args_str == IF arguments # <<>>
                    THEN <<[clause |-> "ARGUMENTS", value |-> arguments]>>
                    ELSE <<>>
    IN  Stmt("execute_notebook", NoSrc, c.repo_name, <<c.database, c.schema>>,
             << [clause |-> "MAIN_FILE", value |-> e.notebook_file],
                [clause |-> "COMPUTE_POOL", value |-> e.cp],
                [clause |-> "RUNTIME", value |-> e.runtime],
                [clause |-> "QUERY_WAREHOUSE", value |-> c.warehouse] >>
             \o eai_str \o args_str)

RECURSIVE ExecuteStatements(_, _)
\* for notebook_file, cp, runtime, eai_list, *optional in execute_list: ...
ExecuteStatements(c, l) ==
    IF l = <<>> THEN <<>>
    ELSE <<ExecuteStatement(c, Head(l))>> \o ExecuteStatements(c, Tail(l))

\* ------------------------------------------------------------------ session
\* MdtSnowPark.get_session and get_snowflake_environment_variables
\* (notebooks/shared/mdt_snowpark.py).  A dict is a function from its keys,
\* a key is text, a value is a str or a Path object.

\* the names of connection parameters the code mentions
K_account == <<"a","c","c","o","u","n","t">>
K_user == <<"u","s","e","r">>
K_host == <<"h","o","s","t">>
K_port == <<"p","o","r","t">>
K_database == <<"d","a","t","a","b","a","s","e">>
K_schema == <<"s","c","h","e","m","a">>
K_role == <<"r","o","l","e">>
K_warehouse == <<"w","a","r","e","h","o","u","s","e">>
K_private_key_file == <<"p","r","i","v","a","t","e","_","k","e","y","_","f","i","l","e">>
K_private_key_file_pwd == <<"p","r","i","v","a","t","e","_","k","e","y","_","f","i","l","e","_","p","w","d">>
K_authenticator == <<"a","u","t","h","e","n","t","i","c","a","t","o","r">>
K_protocol == <<"p","r","o","t","o","c","o","l">>
K_token == <<"t","o","k","e","n">>

\* a str value, and the value of SNOWFLAKE_PRIVATE_KEY_FILE: a relative path
Str(s) == [type |-> "str", dir |-> "", name |-> s]
KeyFileValue == [type |-> "str", dir |-> "keys", name |-> "rsa_key.p8"]
TokenValue == Str("token")

\* pathlib.Path(x) for a str or a Path x
Path(x) == [type |-> "Path", dir |-> x.dir, name |-> x.name]

\* {}
EmptyDict == [k \in {} |-> Str("")]

\* d.update(u)
Update(d, u) ==
    [k \in DOMAIN d \cup DOMAIN u |-> IF k \in DOMAIN u THEN u[k] ELSE d[k]]

\* d[k] = v
SetItem(d, k, v) == Update(d, [x \in {k} |-> v])

\* del d[k]
DelItem(d, k) == [x \in DOMAIN d \ {k} |-> d[x]]

\* the list of get_snowflake_environment_variables
supported_params ==
    { K_account,
      K_user,
      <<"p","a","s","s","w","o","r","d">>,
      <<"a","p","p","l","i","c","a","t","i","o","n">>,
      <<"r","e","g","i","o","n">>,
      K_host,
      K_port,
      K_database,
      K_schema,
      K_role,
      K_warehouse,
      <<"p","a","s","s","c","o","d","e","_","i","n","_","p","a","s","s","w","o","r","d">>,
      <<"p","a","s","s","c","o","d","e">>,
      <<"p","r","i","v","a","t","e","_","k","e","y">>,
      K_private_key_file,
      K_private_key_file_pwd,
      <<"a","u","t","o","c","o","m","m","i","t">>,
      <<"c","l","i","e","n","t","_","p","r","e","f","e","t","c","h","_","t","h","r","e","a","d","s">>,
      <<"c","l","i","e","n","t","_","s","e","s","s","i","o","n","_","k","e","e","p","_","a","l","i","v","e">>,
      <<"l","o","g","i","n","_","t","i","m","e","o","u","t">>,
      <<"n","e","t","w","o","r","k","_","t","i","m","e","o","u","t">>,
      <<"o","c","s","p","_","r","e","s","p","o","n","s","e","_","c","a","c","h","e","_","f","i","l","e","n","a","m","e">>,
      K_authenticator,
      <<"v","a","l","i","d","a","t","e","_","d","e","f","a","u","l","t","_","p","a","r","a","m","e","t","e","r","s">>,
      <<"p","a","r","a","m","s","t","y","l","e">>,
      <<"t","i","m","e","z","o","n","e">>,
      <<"a","r","r","o","w","_","n","u","m","b","e","r","_","t","o","_","d","e","c","i","m","a","l">>,
      <<"s","o","c","k","e","t","_","t","i","m","e","o","u","t">>,
      <<"b","a","c","k","o","f","f","_","p","o","l","i","c","y">>,
      <<"e","n","a","b","l","e","_","c","o","n","n","e","c","t","i","o","n","_","d","i","a","g">>,
      <<"c","o","n","n","e","c","t","i","o","n","_","d","i","a","g","_","l","o","g","_","p","a","t","h">>,
      <<"c","o","n","n","e","c","t","i","o","n","_","d","i","a","g","_","a","l","l","o","w","l","i","s","t","_","p","a","t","h">>,
      <<"i","o","b","o","u","n","d","_","t","p","e","_","l","i","m","i","t">>,
      <<"u","n","s","a","f","e","_","f","i","l","e","_","w","r","i","t","e">> }

\* f'SNOWFLAKE_{_.upper()}'
EnvName(p) == <<"S","N","O","W","F","L","A","K","E","_">> \o Upper(p)

\* {_: environ[env_param] for _, env_param in supported_params.items()
\*  if env_param in environ}
get_snowflake_environment_variables(e) ==
    [p \in {q \in supported_params : EnvName(q) \in DOMAIN e} |-> e[EnvName(p)]]

\* where the code runs: on a warehouse or not, on a container ("token": the
\* session token file exists, "spcs_env": only the SPCS_* variables are set,
\* "no"), and where the private key file is ("at_path", "in_parent" of the
\* working directory, "absent")
Platforms ==
    [warehouse : BOOLEAN, container : {"no", "token", "spcs_env"},
     keyfile : {"at_path", "in_parent", "absent"}]

\* MdtEnvironment.on_snowflake_warehouse()
on_snowflake_warehouse(pf) == pf.warehouse

\* MdtEnvironment.on_snowflake_container()
on_snowflake_container(pf) == pf.container \in {"token", "spcs_env"}

\* open('/snowflake/session/token', 'r') succeeds
TokenFileExists(pf) == pf.container = "token"

\* path.exists()
PathExists(pf, x) ==
    \/ x.dir = KeyFileValue.dir /\ pf.keyfile = "at_path"
    \/ x.dir = ".." /\ pf.keyfile = "in_parent"

\* original_path if original_path.exists() else next((updated_path for _ in
\* [Path.cwd()] + list(Path.cwd().parents) if (updated_path := _ /
\* original_path.name).exists()), original_path)
UpdatedKeyPath(pf, x) ==
    LET original_path == Path(x)
    IN  IF PathExists(pf, original_path) THEN original_path
        ELSE IF pf.keyfile = "in_parent"
        THEN [type |-> "Path", dir |-> "..", name |-> original_path.name]
        ELSE original_path

mandatory_container == {K_host, K_port, K_account, K_warehouse, K_database, K_schema}

mandatory_local ==
    {K_account, K_user, K_private_key_file, K_private_key_file_pwd,
     K_warehouse, K_database, K_schema}

\* missing_parameters of raise_on_missing_parameters
missing_parameters(d, mandatory_parameters) ==
    {p \in mandatory_parameters : p \notin DOMAIN d}

\* how a call ends: kind is "active" (the active session is returned),
\* "session" (a session built from params), or the exception raised; dict is
\* the dict passed as connection_parameters as the call leaves it
Outcome(kind, d, params, missing) ==
    [kind |-> kind, dict |-> d, params |-> params, missing |-> missing]

\* the load_from_env update: the keys already in the dict are kept
LoadFromEnv(d, e) ==
    LET found == get_snowflake_environment_variables(e)
    IN  Update(d, [k \in DOMAIN found \ DOMAIN d |-> found[k]])

\* from the key file path update to Session.builder.configs(...).create()
Connect(pf, d) ==
    LET d4 == IF K_private_key_file \in DOMAIN d
              THEN SetItem(d, K_private_key_file, UpdatedKeyPath(pf, d[K_private_key_file]))
              ELSE d
    IN  Outcome("session", d4, d4, {})

\* get_session(connection_parameters = d, load_from_env) with the environment e
get_session(pf, e, d, load_from_env) ==
    IF on_snowflake_warehouse(pf) THEN Outcome("active", d, EmptyDict, {})
    ELSE
      LET d1 == IF load_from_env THEN LoadFromEnv(d, e) ELSE d
      IN  IF on_snowflake_container(pf)
          THEN LET d2 == SetItem(SetItem(d1, K_protocol, Str("https")),
                                 K_authenticator, Str("oauth"))
                   d3 == SetItem(d2, K_token, TokenValue)
               IN  IF ~TokenFileExists(pf)
                   THEN Outcome("FileNotFoundError", d2, EmptyDict, {})
                   ELSE IF missing_parameters(d3, mandatory_container) # {}
                   THEN Outcome("NameError", d3, EmptyDict,
                                missing_parameters(d3, mandatory_container))
                   ELSE Connect(pf, d3)
          ELSE IF missing_parameters(d1, mandatory_local) # {}
               THEN Outcome("NameError", d1, EmptyDict,
                            missing_parameters(d1, mandatory_local))
               ELSE Connect(pf, d1)

\* what the caller sees of a call
Seen(o) == [kind |-> o.kind, params |-> o.params, missing |-> o.missing]

\* the variables the model changes between calls, and their values
VariedParams == {K_user, K_host, K_role}
Values == {Str("v1"), Str("v2")}

\* the variables every environment of the model sets
BaseEnviron ==
    LET fixed == {K_account, K_port, K_database, K_schema, K_warehouse,
                  K_private_key_file, K_private_key_file_pwd}
    IN  [n \in {EnvName(p) : p \in fixed} |->
           IF n = EnvName(K_private_key_file) THEN KeyFileValue ELSE Str("v1")]

\* the environments a process may start with
Environs ==
    { Update(BaseEnviron, [n \in {EnvName(p) : p \in S} |-> Str("v1")]) :
        S \in SUBSET VariedParams }

\* the dicts a caller passes as connection_parameters
PassedDicts == {EmptyDict, [k \in {K_role} |-> Str("v2")]}

NoCall == [omitted |-> FALSE, load_from_env |-> FALSE, environ |-> EmptyDict]

\* no get_session call has been made: the default dict is the {} of the def
SessionIdle ==
    /\ default_parameters = EmptyDict
    /\ session = Seen(Outcome("none", EmptyDict, EmptyDict, {}))
    /\ call = NoCall
    /\ calls = 0
    /\ changes = 0

\* the module is not imported
SessionUnused ==
    /\ SessionIdle
    /\ environ = BaseEnviron
    /\ platform = [warehouse |-> FALSE, container |-> "no", keyfile |-> "at_path"]

\* session = MdtSnowPark.get_session(...): with connection_parameters
\* omitted the dict is the one object made when the def was executed
GetSession ==
    /\ calls < MaxCalls
    /\ \E omitted \in BOOLEAN, load_from_env \in BOOLEAN, passed \in PassedDicts :
         LET d == IF omitted THEN default_parameters ELSE passed
             o == get_session(platform, environ, d, load_from_env)
         IN  /\ (omitted => passed = EmptyDict)
             /\ session' = Seen(o)
             /\ default_parameters' = IF omitted THEN o.dict ELSE default_parameters
             /\ call' = [omitted |-> omitted, load_from_env |-> load_from_env,
                         environ |-> environ]
    /\ calls' = calls + 1
    /\ UNCHANGED <<environ, platform, changes>>
    /\ UNCHANGED <<vars, rename_vars>>

\* os.environ[name] = value between two calls
Putenv ==
    /\ changes < MaxChanges
    /\ \E p \in VariedParams, v \in Values :
         /\ (EnvName(p) \in DOMAIN environ => environ[EnvName(p)] # v)
         /\ environ' = SetItem(environ, EnvName(p), v)
    /\ changes' = changes + 1
    /\ UNCHANGED <<default_parameters, session, call, platform, calls>>
    /\ UNCHANGED <<vars, rename_vars>>

\* del os.environ[name] between two calls
Unsetenv ==
    /\ changes < MaxChanges
    /\ \E p \in VariedParams :
         /\ EnvName(p) \in DOMAIN environ
         /\ environ' = DelItem(environ, EnvName(p))
    /\ changes' = changes + 1
    /\ UNCHANGED <<default_parameters, session, call, platform, calls>>
    /\ UNCHANGED <<vars, rename_vars>>

SessionNext == GetSession \/ Putenv \/ Unsetenv

\* ------------------------------------------------------------------ rename
\* safe_rename_folder(old_name, new_name, max_retries) of
\* hooks/post_gen_project.py.  folders tells whether old_name and new_name exist;
\* log holds, per loop iteration, the call that ended it and how.

\* how shutil.rmtree or os.rename may end
CallEnds == {"ok", "PermissionError", "OSError"}

LogEntry(stage, error) == [stage |-> stage, error |-> error]

\* the except clauses taken as one: any exception leads to a retry
Retryable_AnyError(error) == error # "ok"

\* except PermissionError
Retryable(error) == error = "PermissionError"

\* no call has been made
RenameUnused ==
    /\ rename_pc = "idle"
    /\ max_retries = 0
    /\ attempt = 0
    /\ given = [old |-> FALSE, new |-> FALSE]
    /\ folders = given
    /\ result = FALSE
    /\ log = <<>>

\* if not os.path.exists(old_name): return True
Enter ==
    /\ rename_pc = "call"
    /\ IF ~folders.old
       THEN rename_pc' = "returned" /\ result' = TRUE
       ELSE rename_pc' = "loop" /\ UNCHANGED result
    /\ UNCHANGED <<max_retries, attempt, given, folders, log>>
    /\ UNCHANGED <<vars, session_vars>>

\* what follows an exception in the try block
Except(error) ==
    IF Retryable(error) /\ attempt + 1 < max_retries
    THEN /\ attempt' = attempt + 1
         /\ UNCHANGED <<rename_pc, result>>
    ELSE /\ rename_pc' = "returned"
         /\ result' = FALSE
         /\ UNCHANGED attempt

\* one iteration of for attempt in range(max_retries): the try block and
\* the except clause it ends in
Attempt ==
    /\ rename_pc = "loop"
    /\ attempt < max_retries
    /\ \E rmtree \in CallEnds, rename \in CallEnds :
         IF folders.new /\ rmtree # "ok"
         THEN /\ rename = "ok"
              /\ log' = Append(log, LogEntry("rmtree", rmtree))
              /\ UNCHANGED folders
              /\ Except(rmtree)
         ELSE /\ (~folders.new => rmtree = "ok")
              /\ log' = Append(log, LogEntry("rename", rename))
              /\ IF rename = "ok"
                 THEN /\ folders' = [old |-> FALSE, new |-> TRUE]
                      /\ rename_pc' = "returned"
                      /\ result' = TRUE
                      /\ UNCHANGED attempt
                 ELSE /\ folders' = [folders EXCEPT !.new = FALSE]
                      /\ Except(rename)
    /\ UNCHANGED <<max_retries, given>>
    /\ UNCHANGED <<vars, session_vars>>

\* the loop is exhausted: return False
LoopEnd ==
    /\ rename_pc = "loop"
    /\ attempt >= max_retries
    /\ rename_pc' = "returned"
    /\ result' = FALSE
    /\ UNCHANGED <<max_retries, attempt, given, folders, log>>
    /\ UNCHANGED <<vars, session_vars>>

RenameNext == Enter \/ Attempt \/ LoopEnd

\* ------------------------------------------------------------------ the script
\* MissingKeys with WAREHOUSE read as an optional variable
MissingKeys_WarehouseOptional(e, v) ==
    {k \in Subscripted(v) \ {"WAREHOUSE"} : KeyMissing(e, k)}

\* the subscripted variables whose lookup raises KeyError
MissingKeys(e, v) == {k \in Subscripted(v) : KeyMissing(e, k)}

\* PhaseAfter with the execute section placed before the app section
PhaseAfter_ExecuteFirst(v, p) ==
    IF v = "snowflake"
    THEN CASE p = "env" -> "setup"
           [] p = "setup" -> "notebooks"
           [] p = "notebooks" -> "apps"
           [] p = "apps" -> "open"
           [] p = "open" -> "write"
           [] p = "write" -> "echo"
           [] p = "echo" -> "done"
    ELSE CASE p = "env" -> "setup"
           [] p = "setup" -> "execute"
           [] p = "execute" -> "apps"
           [] p = "apps" -> "open"
           [] p = "open" -> "write"
           [] p = "write" -> "echo"
           [] p = "echo" -> "done"

\* the sections of each script, in the order of the file
PhaseAfter(v, p) ==
    IF v = "snowflake"
    THEN CASE p = "env" -> "setup"
           [] p = "setup" -> "notebooks"
           [] p = "notebooks" -> "apps"
           [] p = "apps" -> "open"
           [] p = "open" -> "write"
           [] p = "write" -> "echo"
           [] p = "echo" -> "done"
    ELSE CASE p = "env" -> "setup"
           [] p = "setup" -> "apps"
           [] p = "apps" -> "execute"
           [] p = "execute" -> "open"
           [] p = "open" -> "write"
           [] p = "write" -> "echo"
           [] p = "echo" -> "done"

\* A directory that cannot be listed is considered for the runs that read
\* every subscripted variable and have a compute pool: the other runs end
\* before the scans or are covered with readable trees.
Init ==
    /\ variant \in {"snowflake", "deploy"}
    /\ tree \in Trees(variant)
    /\ (variant = "deploy" => tree.notebooks = {})
    /\ env \in Envs(variant)
    /\ ((MissingKeys(env, variant) # {} \/ KeyMissing(env, "COMPUTE_POOL")) => tree.unreadable = {})
    /\ pc = "env"
    /\ ctx = NoCtx
    /\ deploy_lines = <<>>
    /\ output = <<>>
    /\ opened = FALSE
    /\ prev = <<>>
    /\ runs = 1
    /\ SessionUnused
    /\ RenameUnused

\* ENVIRONMENT VARIABLES section, and deploy_lines = []
LoadEnv ==
    /\ pc = "env"
    /\ IF MissingKeys(env, variant) # {}
       THEN /\ pc' = "failed"
            /\ UNCHANGED <<ctx, deploy_lines>>
       ELSE /\ ctx' = ReadEnv(env, variant)
            /\ deploy_lines' = <<>>
            /\ pc' = PhaseAfter(variant, "env")
    /\ UNCHANGED <<session_vars, rename_vars, variant, env, tree, output, opened, prev, runs>>

\* Setup writing its lines to the output file as it renders them
Setup_WritesThrough ==
    /\ pc = "setup"
    /\ deploy_lines' = deploy_lines \o use_lines(variant, ctx)
    /\ opened' = TRUE
    /\ output' = Bytes(use_lines(variant, ctx))
    /\ pc' = IF variant = "snowflake" THEN "notebooks" ELSE "apps"
    /\ UNCHANGED <<session_vars, rename_vars, variant, env, tree, ctx, prev, runs>>

\* DATABASE AND SCHEMA SETUP section
Setup ==
    /\ pc = "setup"
    /\ deploy_lines' = deploy_lines \o use_lines(variant, ctx)
    /\ pc' = PhaseAfter(variant, "setup")
    /\ UNCHANGED <<session_vars, rename_vars, variant, env, tree, ctx, output, opened, prev, runs>>

\* NOTEBOOKS section ("snowflake" script)
ScanNotebooks ==
    /\ pc = "notebooks"
    /\ deploy_lines' \in NotebookWalk(tree, variant, ctx, <<>>, deploy_lines)
    /\ pc' = PhaseAfter(variant, "notebooks")
    /\ UNCHANGED <<session_vars, rename_vars, variant, env, tree, ctx, output, opened, prev, runs>>

\* WEB APPS / CONTAINERIZED STREAMLIT SERVICES section
ScanApps ==
    /\ pc = "apps"
    /\ IF ~DirExists(tree, variant, streamlit_root(variant))
       THEN /\ pc' = PhaseAfter(variant, "apps")
            /\ UNCHANGED deploy_lines
       ELSE \E r \in AppWalk(tree, variant, ctx, streamlit_root(variant),
                             [lines |-> deploy_lines, ok |-> TRUE]) :
              /\ deploy_lines' = r.lines
              /\ pc' = IF r.ok THEN PhaseAfter(variant, "apps") ELSE "failed"
    /\ UNCHANGED <<session_vars, rename_vars, variant, env, tree, ctx, output, opened, prev, runs>>

\* EXECUTE NOTEBOOKS ON DEPLOY section ("deploy" script)
ExecuteNotebooks ==
    /\ pc = "execute"
    /\ deploy_lines' = deploy_lines \o ExecuteStatements(ctx, execute_list(variant, ctx))
    /\ pc' = PhaseAfter(variant, "execute")
    /\ UNCHANGED <<session_vars, rename_vars, variant, env, tree, ctx, output, opened, prev, runs>>

\* open(output_path, 'w'): the file is truncated
OpenOutput ==
    /\ pc = "open"
    /\ opened' = TRUE
    /\ output' = <<>>
    /\ pc' = PhaseAfter(variant, "open")
    /\ UNCHANGED <<session_vars, rename_vars, variant, env, tree, ctx, deploy_lines, prev, runs>>

\* f.writelines(deploy_lines)
WriteLines ==
    /\ pc = "write"
    /\ output' = Bytes(deploy_lines)
    /\ pc' = PhaseAfter(variant, "write")
    /\ UNCHANGED <<session_vars, rename_vars, variant, env, tree, ctx, deploy_lines, opened, prev, runs>>

\* the file is read back and printed; nothing the script holds changes
Echo ==
    /\ pc = "echo"
    /\ pc' = PhaseAfter(variant, "echo")
    /\ UNCHANGED <<session_vars, rename_vars, variant, env, tree, ctx, deploy_lines, output, opened, prev, runs>>

\* after a completed run the pipeline runs the script again on the same tree
\* and environment; prev keeps what the file held when the run started
Rerun ==
    /\ pc = "done"
    /\ runs < MaxRuns
    /\ runs' = runs + 1
    /\ prev' = output
    /\ pc' = "env"
    /\ ctx' = NoCtx
    /\ deploy_lines' = <<>>
    /\ opened' = FALSE
    /\ UNCHANGED <<session_vars, rename_vars, variant, env, tree, output>>

Next ==
    \/ LoadEnv
    \/ Setup
    \/ ScanNotebooks
    \/ ScanApps
    \/ ExecuteNotebooks
    \/ OpenOutput
    \/ WriteLines
    \/ Echo
    \/ Rerun

Spec == Init /\ [][Next]_<<vars, session_vars, rename_vars>>

\* the script is not running
ScriptIdle ==
    /\ variant = "deploy"
    /\ tree = [approot |-> FALSE, entry |-> [d \in AppDirs |-> "none"], docker |-> {},
               notebooks |-> {}, unreadable |-> {}]
    /\ env = [set |-> {}, val |-> BaseValues]
    /\ pc = "idle"
    /\ ctx = NoCtx
    /\ deploy_lines = <<>>
    /\ output = <<>>
    /\ opened = FALSE
    /\ prev = <<>>
    /\ runs = 1

\* a process imports shared.mdt_snowpark and calls get_session while its
\* environment changes between the calls
SessionInit ==
    /\ ScriptIdle
    /\ RenameUnused
    /\ SessionIdle
    /\ environ \in Environs
    /\ platform \in Platforms

\* the hook calls safe_rename_folder
RenameInit ==
    /\ ScriptIdle
    /\ SessionUnused
    /\ rename_pc = "call"
    /\ max_retries \in 0..MaxRetries
    /\ attempt = 0
    /\ given \in [old : BOOLEAN, new : BOOLEAN]
    /\ folders = given
    /\ result = FALSE
    /\ log = <<>>

SpecRename ==
    /\ RenameInit
    /\ [][RenameNext]_<<vars, session_vars, rename_vars>>
    /\ WF_<<vars, session_vars, rename_vars>>(RenameNext)

SpecSession == SessionInit /\ [][SessionNext]_<<vars, session_vars, rename_vars>>

\* ------------------------------------------------------------------ properties
\* the plan is complete: every scan and render section has run
PlanReady == pc \in {"open", "write", "echo", "done"}

SetupKinds == {"use_database", "create_schema", "grant_schema", "use_schema",
               "create_notebook_project", "notebook_project_from"}
NotebookKinds == {"create_notebook", "alter_notebook"}
AppKinds == {"drop_service", "create_service", "create_streamlit"}
ExecuteKinds == {"execute_notebook"}

\* the ordering key of a statement: Setup 1, Notebook 2, App 3, Execute 4
Rank(s) ==
    IF s.kind \in SetupKinds THEN 1
    ELSE IF s.kind \in NotebookKinds THEN 2
    ELSE IF s.kind \in AppKinds THEN 3
    ELSE 4

\* the repository path of an app directory given relative to the app root
AppPath(d) == streamlit_root(variant) \o d

IsAppStmtOf(s, d) == s.kind \in AppKinds /\ s.src = AppPath(d)

\* the templates of the statements the plan holds for app directory d, in order
KindsFor(d) ==
    LET ss == SelectSeq(deploy_lines, LAMBDA s : IsAppStmtOf(s, d))
    IN  [i \in 1..Len(ss) |-> ss[i].kind]

AsContainerService == <<"drop_service", "create_service">>
AsNativeApp == <<"create_streamlit">>

HasEntry(d) == tree.entry[d] # "none"
HasDocker(d) == d \in tree.docker
PoolAndRepoSet == ctx.compute_pool # <<>> /\ ctx.image_repo # <<>>

\* the app scan lists the files of directory d: d and every directory above
\* it can be listed
Reached(d) ==
    \A n \in 1..Len(AppPath(d)) : ~ScandirRaises(tree, SubSeq(AppPath(d), 1, n))

\* C1 (as stated): in a complete plan, a directory with an entry file and a
\* Dockerfile is rendered as drop-service plus create-service when
\* computePool and imageRepository are both set, and as a single native-app
\* create statement when imageRepository alone is empty.
C1_AsStated ==
    PlanReady =>
      \A d \in AppDirs : (HasEntry(d) /\ HasDocker(d)) =>
        /\ (PoolAndRepoSet => KindsFor(d) = AsContainerService)
        /\ ((ctx.compute_pool # <<>> /\ ctx.image_repo = <<>>) => KindsFor(d) = AsNativeApp)

\* C1 (amended): for a directory the scan lists, with both set the directory
\* is rendered as drop-service plus create-service; with imageRepository
\* alone empty it is rendered as a single native-app create statement only by
\* the 00snowflake script and only when the entry file is not zero bytes,
\* and as nothing otherwise (the deploy script has no native-app rendering).
C1_ClassificationPrecedence ==
    PlanReady =>
      \A d \in AppDirs : (HasEntry(d) /\ HasDocker(d) /\ Reached(d)) =>
        /\ (PoolAndRepoSet => KindsFor(d) = AsContainerService)
        /\ ((ctx.compute_pool # <<>> /\ ctx.image_repo = <<>>) =>
              KindsFor(d) = IF variant = "snowflake" /\ tree.entry[d] = "nonempty"
                            THEN AsNativeApp ELSE <<>>)

\* C1 witness: a finished 00snowflake run in which a directory with a
\* Dockerfile and a non-empty entry file degraded to a native app because
\* only imageRepository is empty.
C1_Witness ==
    /\ pc = "done"
    /\ ctx.compute_pool # <<>> /\ ctx.image_repo = <<>>
    /\ \E d \in AppDirs : HasDocker(d) /\ KindsFor(d) = AsNativeApp

\* C2 (as stated): a directory whose entry file has zero bytes contributes no
\* statement to the plan, whatever else it holds and whatever the context.
C2_AsStated ==
    \A d \in AppDirs : tree.entry[d] = "empty" => KindsFor(d) = <<>>

\* C2 (amended): a directory whose entry file has zero bytes contributes no
\* statement unless it also holds a Dockerfile while computePool and
\* imageRepository are both set; in that case, when the scan lists it, it is
\* rendered as a ContainerService like any other.
C2_ZeroByteSkipped ==
    PlanReady =>
      \A d \in AppDirs : tree.entry[d] = "empty" =>
        KindsFor(d) = IF HasDocker(d) /\ PoolAndRepoSet /\ Reached(d)
                      THEN AsContainerService ELSE <<>>

\* C2 witness: a finished run over a zero-byte entry file next to a
\* Dockerfile with pool and repository set, rendered as a service.
C2_Witness ==
    /\ pc = "done"
    /\ \E d \in AppDirs :
          tree.entry[d] = "empty" /\ HasDocker(d) /\ KindsFor(d) = AsContainerService

\* C3: in every state, a directory whose entry file has zero bytes and which
\* has no Dockerfile has no statement in deploy_lines.
C3_SkipRule ==
    \A d \in AppDirs : (tree.entry[d] = "empty" /\ ~HasDocker(d)) => KindsFor(d) = <<>>

\* C3 witness: a finished 00snowflake run that walked such a directory and
\* rendered another, non-empty, app.
C3_Witness ==
    /\ pc = "done"
    /\ variant = "snowflake"
    /\ \E d, e \in AppDirs :
          /\ tree.entry[d] = "empty" /\ ~HasDocker(d)
          /\ KindsFor(e) = AsNativeApp

\* the statements that create an artifact
CreateKinds == {"create_notebook", "create_streamlit", "create_service"}

\* two artifacts of the plan, found at distinct paths, have the same name
Collision ==
    \E i, j \in 1..Len(deploy_lines) :
        /\ i # j
        /\ deploy_lines[i].kind \in CreateKinds
        /\ deploy_lines[j].kind \in CreateKinds
        /\ Rank(deploy_lines[i]) = Rank(deploy_lines[j])
        /\ deploy_lines[i].name = deploy_lines[j].name
        /\ deploy_lines[i].src # deploy_lines[j].src

\* C4: when two artifacts at distinct paths resolve to the same identifier,
\* the run fails before the output file is opened: no opened file goes with
\* a plan that holds both.
C4_UniqueIdentifiers == opened => ~Collision

RECURSIVE JoinUnderscore(_)
JoinUnderscore(comps) ==
    IF Len(comps) = 1 THEN comps[1]
    ELSE comps[1] \o <<"_">> \o JoinUnderscore(Tail(comps))

\* the identifier of the app artifact in directory src, as the claim gives it
ExpectedIdentifier(src) ==
    LET rel == SubSeq(src, 2, Len(src))
        base == env.val["REPO_NAME"] \o <<"_">> \o env.val["BUILD_SOURCEBRANCHNAME"]
    IN  IF rel = <<>> THEN Upper(base)
        ELSE Upper(base \o <<"_">> \o JoinUnderscore(rel))

\* C5: every app statement names its object by
\* UPPER(repoName_branch[_path with separators replaced by "_"]); a service
\* is named identifier + "_SERVICE" and its image LOWER(identifier) + "_image".
C5_IdentifierDerivation ==
    \A i \in 1..Len(deploy_lines) :
      LET s == deploy_lines[i]
          id == ExpectedIdentifier(s.src)
      IN  /\ (s.kind = "create_streamlit" => s.name = id)
          /\ (s.kind \in {"drop_service", "create_service"} =>
                s.name = id \o <<"_","S","E","R","V","I","C","E">>)
          /\ (s.kind = "create_service" =>
                s.args[6] = Lower(id) \o <<"_","i","m","a","g","e">>)

\* C5 witness: a finished run that rendered a service for the nested
\* directory a/b and an app at the app root.
C5_Witness ==
    /\ pc = "done"
    /\ KindsFor(<<Dir_a, Dir_b>>) = AsContainerService
    /\ KindsFor(<<>>) # <<>>

\* src is src2 or a directory below it
IsBelow(src, src2) == Len(src) > Len(src2) /\ SubSeq(src, 1, Len(src2)) = src2

\* C6: in every state the statements are in the order Setup, Notebook, App,
\* Execute; the statements of one app directory are adjacent, and those of a
\* directory never come after those of a directory below it (the walk is
\* top-down), whichever kinds they are.
C6_GroupOrder ==
    /\ \A i, j \in 1..Len(deploy_lines) :
          i < j => Rank(deploy_lines[i]) <= Rank(deploy_lines[j])
    /\ \A i, j \in 1..Len(deploy_lines) :
          (i < j /\ Rank(deploy_lines[i]) = 3 /\ Rank(deploy_lines[j]) = 3) =>
             /\ ~IsBelow(deploy_lines[i].src, deploy_lines[j].src)
             /\ (deploy_lines[i].src = deploy_lines[j].src =>
                   \A k \in i..j : deploy_lines[k].src = deploy_lines[i].src)

\* C6 witness: a finished plan with Setup, Notebook and App statements in
\* which a native app precedes a container service.
C6_Witness ==
    /\ pc = "done"
    /\ \E n \in 1..Len(deploy_lines) : Rank(deploy_lines[n]) = 2
    /\ \E i, j \in 1..Len(deploy_lines) :
          /\ i < j
          /\ deploy_lines[i].kind = "create_streamlit"
          /\ deploy_lines[j].kind = "drop_service"

\* no notebook and no entry file anywhere
EmptyTree == tree.notebooks = {} /\ \A d \in AppDirs : tree.entry[d] = "none"

\* C7 (as stated): over an empty tree the plan is exactly the Setup statements.
C7_AsStated ==
    (PlanReady /\ EmptyTree) => Bytes(deploy_lines) = Bytes(use_lines(variant, ctx))

\* the number of entries of the configured execution list
ConfiguredExecutions == IF variant = "deploy" THEN 2 ELSE 0

\* C7 (amended): over an empty tree the plan is the Setup statements followed
\* by one Execute statement per entry of the configured execution list (none
\* in the 00snowflake script, two in the deploy script), and holds no
\* Notebook or App statement.
C7_EmptyTreePlan ==
    (PlanReady /\ EmptyTree) =>
      LET n == Len(use_lines(variant, ctx))
      IN  /\ Len(deploy_lines) = n + ConfiguredExecutions
          /\ SubSeq(Bytes(deploy_lines), 1, n) = Bytes(use_lines(variant, ctx))
          /\ \A i \in (n + 1)..Len(deploy_lines) : deploy_lines[i].kind \in ExecuteKinds
          /\ \A i \in 1..Len(deploy_lines) : Rank(deploy_lines[i]) \notin {2, 3}

\* C7 witness: a finished 00snowflake run over an empty tree whose app root
\* exists, so that both walks ran.
C7_Witness ==
    /\ pc = "done"
    /\ EmptyTree
    /\ variant = "snowflake"
    /\ tree.approot
    /\ output = Bytes(use_lines(variant, ctx))

MandatoryFields ==
    {"DEPLOY_DB", "DEPLOY_SCHEMA", "REPO_NAME", "BUILD_SOURCEBRANCHNAME", "WAREHOUSE"}

\* C8: when a mandatory field is missing the run never leaves the
\* environment section except to fail: nothing is rendered, the output file
\* is not opened and keeps what it held.
C8_MissingConfiguration ==
    (\E k \in MandatoryFields : k \notin env.set) =>
      /\ pc \in {"env", "failed"}
      /\ deploy_lines = <<>>
      /\ ~opened
      /\ output = prev

\* C8 witness: a run that failed for a missing WAREHOUSE.
C8_Witness == pc = "failed" /\ "WAREHOUSE" \notin env.set

\* C9: until every scan and render section has completed the output file is
\* not opened and holds what it held when the run started, also when the
\* run has failed; the file differs from the plan of a completed run only
\* between its truncation and writelines.
C9_AtomicOutput ==
    /\ (pc \in {"env", "setup", "notebooks", "apps", "execute", "open", "failed"} =>
          ~opened /\ output = prev)
    /\ ((opened /\ output # Bytes(deploy_lines)) => pc = "write")

\* C9 witness: a run that failed during the app scan after statements had
\* been rendered.
C9_Witness == pc = "failed" /\ Len(deploy_lines) > 0 /\ ~opened

\* C10: a second run over the same tree and environment leaves in the output
\* file exactly what the first run left.
C10_Deterministic == (runs = 2 /\ pc = "done") => output = prev

\* the Execute statements of the plan, in order
ExecuteStmts == SelectSeq(deploy_lines, LAMBDA s : s.kind \in ExecuteKinds)

HasClause(s, name) == \E i \in 1..Len(s.clauses) : s.clauses[i].clause = name

\* C11: no rendered Execute statement holds a clause with an empty value:
\* the n-th statement has an EXTERNAL_ACCESS_INTEGRATIONS clause exactly when
\* the n-th configured entry lists an integration, an ARGUMENTS clause
\* exactly when it gives arguments, and a COMPUTE_POOL clause only with a
\* non-empty pool.
C11_NoEmptyClause ==
    \A n \in 1..Len(ExecuteStmts) :
      LET s == ExecuteStmts[n]
          e == execute_list(variant, ctx)[n]
      IN  /\ \A i \in 1..Len(s.clauses) : s.clauses[i].value # <<>>
          /\ (HasClause(s, "EXTERNAL_ACCESS_INTEGRATIONS") <=> e.eai_list # <<>>)
          /\ (HasClause(s, "ARGUMENTS") <=> (e.optional # <<>> /\ e.optional[1] # <<>>))

\* C13: in deploy_lines and in the output file, every create-service
\* statement directly follows a drop-service statement for the same service
\* and every drop-service statement is directly followed by the
\* create-service statement of that service.
C13_DropCreatePaired ==
    \A l \in {Bytes(deploy_lines), output} :
      \A i \in 1..Len(l) :
        /\ (l[i].kind = "create_service" =>
              i > 1 /\ l[i-1].kind = "drop_service" /\ l[i-1].name = l[i].name)
        /\ (l[i].kind = "drop_service" =>
              i < Len(l) /\ l[i+1].kind = "create_service" /\ l[i+1].name = l[i].name)

\* C13 witness: a written file with the service of one directory and the
\* native app of another.
C13_Witness ==
    /\ pc = "done"
    /\ \E i \in 1..Len(output) : output[i].kind = "drop_service"
    /\ \E i \in 1..Len(output) : output[i].kind = "create_streamlit"

\* a notebook or an app entry file lies in or below a directory the scan
\* cannot list
HiddenArtifacts ==
    \/ \E n \in tree.notebooks : ScandirRaises(tree, n[1])
    \/ \E d \in AppDirs : HasEntry(d) /\ ~Reached(d)

\* C12: a run over a tree with a directory that cannot be listed never
\* completes its scans and never opens the output file: no plan is written
\* that omits the artifacts below that directory.
C12_UnreadablePropagated ==
    (tree.unreadable # {} /\ HiddenArtifacts) => (~PlanReady /\ ~opened)

\* C14: a call that omits connection_parameters with load_from_env = True
\* ends as the same call on a fresh empty dict ends in the environment of
\* the time of the call: same session parameters, same exception, whatever
\* calls were made before.
C14_StatelessSession ==
    (call.omitted /\ call.load_from_env) =>
      session = Seen(get_session(platform, call.environ, EmptyDict, TRUE))

\* the loop iterations that reached os.rename
RenameCalls == {i \in 1..Len(log) : log[i].stage = "rename"}

Returned == rename_pc = "returned"

AllPermissionErrors == \A i \in 1..Len(log) : log[i].error = "PermissionError"

\* what holds in every state of a call of safe_rename_folder
RetryDiscipline ==
    /\ Len(log) <= max_retries
    /\ Cardinality(RenameCalls) <= max_retries
    /\ \A i \in 1..Len(log) :
         /\ (i < Len(log) => log[i].error = "PermissionError")
         /\ (log[i].error = "ok" => i = Len(log) /\ Returned /\ result = TRUE)
         /\ (log[i].error = "OSError" => i = Len(log) /\ Returned /\ result = FALSE)
    /\ ((log # <<>> /\ Len(log) = max_retries /\ AllPermissionErrors) =>
          Returned /\ result = FALSE)
    /\ ((log # <<>> /\ Len(log) < max_retries /\ AllPermissionErrors) => ~Returned)
    /\ ((Returned /\ ~given.old) => result = TRUE /\ log = <<>>)
    /\ ((Returned /\ given.old /\ log = <<>>) => result = FALSE /\ max_retries = 0)
    /\ ((Returned /\ result = TRUE /\ given.old) => log # <<>> /\ log[Len(log)].error = "ok")

\* C15: a call makes at most max_retries loop iterations and os.rename
\* calls; it returns True without an iteration when old_name does not exist
\* and True as soon as a rename succeeds; an iteration is followed by another
\* only after a PermissionError, the call returns False once max_retries
\* iterations have raised PermissionError and after the first iteration
\* that raises another exception; and every call returns.
C15_BoundedRetry == [](RetryDiscipline) /\ <>(Returned)

\* C15 witness: a call with max_retries = 3 that returned False after three
\* PermissionErrors, the first from shutil.rmtree, the others from os.rename.
C15_Witness ==
    /\ Returned /\ result = FALSE
    /\ max_retries = 3 /\ Len(log) = 3 /\ AllPermissionErrors
    /\ log[1].stage = "rmtree" /\ log[3].stage = "rename"

====
